---- MODULE Spec2Model ----
(***************************************************************************)
(* Model of the order-processing workflow of CRMAutomation (src/main.py):  *)
(* run_automation, process_service_order, the per-order bookkeeping, the   *)
(* cleanup and the finalisation, with the cancellation flag set by the     *)
(* caller at an arbitrary moment.                                          *)
(*                                                                         *)
(* Every browser call that the code does not protect with its own         *)
(* try/except may fault; the fault is a nondeterministic input of the      *)
(* action that makes the call.                                             *)
(***************************************************************************)
EXTENDS Integers, Sequences, FiniteSets, TLC

\* ------------------------------------------------------------------ bounds
MaxIds == 2            \* longest identifier list loaded from the input file
MaxRetriesCfg == 3     \* largest configured max_retries explored
MaxThreads == 2        \* automation threads the dashboard may start
MaxRows == 2           \* rows of the result table explored

IdSet == {"SO001", "SO002"}
None == "None"
IsSet == "set"

VARIABLES
    pc,                 \* position of run_automation / process_service_order
    excel,              \* content of the input file (identifier column)
    max_retries,        \* config["max_retries"]
    so_numbers,         \* local so_numbers of run_automation
    i,                  \* loop index of enumerate(so_numbers, 1)
    stats,              \* self.stats
    cancelled,          \* self.cancelled
    retry_count,        \* parameter retry_count of process_service_order
    success,            \* local success of run_automation (result of the call)
    pending,            \* an exception is propagating through the inner finally
    browser,            \* "none" | "open" | "closed"
    failed_orders,      \* content of failed_orders.txt, one identifier per line
    summary_file,       \* automation_summary.txt: <<>> when absent, else <<content>>
    login_success,      \* local login_success of run_automation ("none" before)
    navigation_success, \* local navigation_success of run_automation
    download_dir,       \* artifact files present in self.download_dir
    propagated,         \* exception leaving run_automation ("none" when none)
    surfaced,           \* what run() delivers to its caller ("pending" before)
    config_storage_state, \* self.config.get("storage_state") (None when absent)
    cwd_files,          \* session-state files present in the working directory
    context_state,      \* storage_state the browser context was created with
    \* ---- history (observation only, never read by the program's guards)
    closeCalls,         \* number of browser.close() calls
    pageUsedAfterClose, \* a page interaction happened after browser.close()
    outcomes,           \* terminal outcome of each order handed to the pipeline
    appends,            \* per order index: lines appended to the failure log
    attemptSteps,       \* steps executed in the current attempt, with results
    attemptsMade,       \* attempts started for the order in flight
    ranWhileCancelled,  \* <<order index, step>> executed while the flag was set
    cancelAt,           \* where the run was when the flag was set
    loopEntered,        \* the order loop was reached
    loginLog,           \* observation of the last login call
    lastExtract,        \* observation of the last find_and_save_invoice_image call
    processed,          \* identifiers handed to process_service_order, in order
    returnCalls,        \* number of return_to_search calls
    \* ---- consecutive runs on one identifier (RerunSpec only)
    run_no,             \* "first" | "second"
    cap,                \* behaviour of the CRM page for the identifier
    firstRun,           \* what the first run loaded, wrote and returned
    \* ---- one call of a page-level function (FunSpec only)
    fn_name,            \* the function called ("none" before the call)
    fn_arg,             \* what the page does during the call
    fn_ret,             \* what the call returned and did
    \* ---- the dashboard and its automation threads (DashSpec only)
    automation_running, \* st.session_state.automation_running
    ui_pc,              \* "idle" | "started" (inside start_automation)
    thr,                \* per automation thread: position, the flag of its
                        \* CRMAutomation object, orders handed to the pipeline
    cancelTargets       \* threads inside automation.run() at a Cancel click

vars == <<pc, excel, max_retries, so_numbers, i, stats, cancelled, retry_count,
          success, pending, browser, failed_orders, summary_file, closeCalls,
          pageUsedAfterClose, outcomes, appends, attemptSteps, attemptsMade,
          ranWhileCancelled, cancelAt, loopEntered, login_success,
          download_dir, propagated, surfaced, loginLog, lastExtract, processed,
          returnCalls, config_storage_state, cwd_files, context_state,
          run_no, cap, firstRun, fn_name, fn_arg, fn_ret,
          navigation_success, automation_running, ui_pc, thr, cancelTargets>>

\* variables only the consecutive-run scenario changes
rerunVars == <<config_storage_state, run_no, cap, firstRun>>

\* variables only the single-call scenario changes
funVars == <<fn_name, fn_arg, fn_ret>>

\* variables only the dashboard scenario changes
dashVars == <<automation_running, ui_pc, thr, cancelTargets>>

progVars == <<excel, max_retries, so_numbers, i, stats, cancelled, retry_count,
              success, pending, browser, failed_orders, summary_file>>

\* ----------------------------------------------------------------- helpers
SeqsUpTo(S, n) == UNION {[1..k -> S] : k \in 0..n}

\* the identifier lists explored: the names are interchangeable, so the
\* lists start with SO001
InputLists == {s \in SeqsUpTo(IdSet, MaxIds) : s = <<>> \/ s[1] = "SO001"}

\* self.stats as built by __init__
InitStats == [total |-> 0, success |-> 0, failed |-> 0, skipped |-> 0,
              start_time |-> None, end_time |-> None]

\* the page is used by the calling action; remember a use after close()
UsePage == pageUsedAfterClose' = (pageUsedAfterClose \/ browser = "closed")

\* a pipeline step of the order in flight is executed
RanStep(step) ==
    /\ ranWhileCancelled' = IF cancelled THEN ranWhileCancelled \cup {<<i, step>>}
                            ELSE ranWhileCancelled
    /\ UNCHANGED attemptsMade

Record(step, res) == attemptSteps' = Append(attemptSteps, [step |-> step, res |-> res])

\* process_service_order returns r to run_automation
ReturnFromProcess(r) ==
    /\ success' = r
    /\ outcomes' = Append(outcomes, IF r THEN "Success" ELSE "Failed")
    /\ pc' = "bookkeep"

\* print_summary: the duration is end_time - start_time, a TypeError when
\* either is still None; otherwise the summary file is overwritten
PrintSummaryRaises(st) == st.end_time = None \/ st.start_time = None
SummaryContent(st) == [total |-> st.total, success |-> st.success,
                       failed |-> st.failed, end_time |-> st.end_time]

\* self.stats["end_time"] = datetime.now(), line 780
FinalizeStats_Missing(st) == st
FinalizeStats(st) == [st EXCEPT !.end_time = IsSet]

\* if self.cancelled: return False, lines 664-665
CancelledAtEntry_Ignored(flag) == FALSE
CancelledAtEntry(flag) == flag

\* the first step of an attempt is the search, line 673
FirstStep_ResumeOnRetry(rc) == IF rc > 0 THEN "po_details" ELSE "po_search"
FirstStep(rc) == "po_search"

\* the return of lines 718-720 is inside the inner try: its finally runs
LoginFailedTarget_NoCleanup == "outer_finally"
LoginFailedTarget == "cleanup"

\* the return of lines 724-726 leaves run_automation through the inner
\* finally; no order is processed
NavFailedTarget_Continue == "loop"
NavFailedTarget == "cleanup"

\* the retry is a new call of process_service_order, line 699: it begins
\* with the check of the flag, line 664
RetryEntry_SkipCheck == "po_search"
RetryEntry == "po_check"

\* if retry_count < max_retries - 1, line 696
MayRetry_OneMore(rc, mr) == rc < mr
MayRetry(rc, mr) == rc < mr - 1

\* self.stats["success"] += 1, line 738
CountSuccess_AndSkipped(st) == [st EXCEPT !.success = @ + 1, !.skipped = @ + 1]
CountSuccess(st) == [st EXCEPT !.success = @ + 1]

\* self.stats["failed"] += 1 of the except of the loop body, line 749
CountCritical_Missing(st) == st
CountCritical(st) == [st EXCEPT !.failed = @ + 1]

\* ------------------------------------------------------------ login
\* max_attempts of login, line 232
max_attempts == 3

\* what one iteration of the attempt loop of login meets (lines 233-295):
\*   field_missing      a wait_for_selector result is falsy: nothing submitted,
\*                      the loop goes on without entering the handler
\*   raise_pre          a call before the click of the login button raises
\*   raise_post         the click was made, a later wait raises
\*   verify_false       is_logged_in is False, screenshot, continue
\*   verify_false_shot  is_logged_in is False and the screenshot raises
\*   verify_true        is_logged_in is True, the session state is saved
\*   save_fault         is_logged_in is True, storage_state(path=...) raises
\* the suffix _hf: the wait or the reload of the handler (lines 288-295)
\* raises as well, which reaches the outer handler of login
AttemptKinds ==
    {"field_missing", "raise_pre", "raise_pre_hf", "raise_post",
     "raise_post_hf", "verify_false", "verify_false_shot",
     "verify_false_shot_hf", "verify_true", "save_fault", "save_fault_hf"}

Submits(kind) == kind \notin {"field_missing", "raise_pre", "raise_pre_hf"}
Verified(kind) == kind \in {"verify_true", "save_fault", "save_fault_hf"}
HandlerFaults(kind) ==
    kind \in {"raise_pre_hf", "raise_post_hf", "verify_false_shot_hf",
              "save_fault_hf"}

LoginInputs ==
    [goto : {"ok", "fault"}, att : [1..max_attempts -> AttemptKinds],
     finalshot : {"ok", "fault"}, errshot : {"ok", "fault"}]

\* except Exception of login, lines 301-304: its screenshot may raise
LoginErrorHandler(inp, n, subs, ver, ab) ==
    [result |-> IF inp.errshot = "fault" THEN "raise" ELSE "false",
     attempts |-> n, submissions |-> subs, verified |-> ver, aborted |-> ab]

\* for attempt in range(max_attempts), lines 233-299
RECURSIVE LoginAttempts(_, _, _, _)
LoginAttempts(attempt, inp, subs, ver) ==
    IF attempt >= max_attempts
    THEN IF inp.finalshot = "fault"
         THEN LoginErrorHandler(inp, attempt, subs, ver, FALSE)
         ELSE [result |-> "false", attempts |-> attempt, submissions |-> subs,
               verified |-> ver, aborted |-> FALSE]
    ELSE LET kind == inp.att[attempt + 1]
             subs2 == subs + (IF Submits(kind) THEN 1 ELSE 0)
             ver2 == IF Verified(kind) THEN ver \cup {attempt + 1} ELSE ver
         IN  CASE kind = "verify_true" ->
                    [result |-> "true", attempts |-> attempt + 1,
                     submissions |-> subs2, verified |-> ver2,
                     aborted |-> FALSE]
               [] HandlerFaults(kind) ->
                    LoginErrorHandler(inp, attempt + 1, subs2, ver2, TRUE)
               [] OTHER -> LoginAttempts(attempt + 1, inp, subs2, ver2)

\* login, lines 213-304
login(inp) ==
    IF inp.goto = "fault"
    THEN LoginErrorHandler(inp, 0, 0, {}, TRUE)
    ELSE LoginAttempts(0, inp, 0, {})

LoginOutcomes == {login(inp) : inp \in LoginInputs}

NoLogin == [result |-> "none", attempts |-> 0, submissions |-> 0,
            verified |-> {}, aborted |-> FALSE]

\* what login does about a failed attempt before the loop goes on
\* (attempt counted from 1): the screenshot of line 285 is taken only when
\* is_logged_in returned False, the wait and the reload of lines 290-295
\* only in the except branch
AttemptDiagnostics(kind, attempt) ==
    CASE kind = "verify_false" -> {"shot"}
      [] kind \in {"raise_pre", "raise_post", "verify_false_shot",
                   "save_fault"} ->
            IF attempt < max_attempts THEN {"wait", "reload"} ELSE {"wait"}
      [] OTHER -> {}

LoginDiagnostics(inp) ==
    [k \in 1..login(inp).attempts |-> AttemptDiagnostics(inp.att[k], k)]

\* the site shows the logged-in state and no login form: the username field
\* of lines 238-242 never becomes visible
NoLoginForm(inp) ==
    /\ inp.goto = "ok"
    /\ \A k \in 1..max_attempts :
          inp.att[k] \in {"field_missing", "raise_pre", "raise_pre_hf"}

\* ------------------------------------------------- login verification
\* welcome_selectors of is_logged_in has four entries, line 340
welcome_count == 4

\* what is_logged_in meets:
\*   logout   wait_for_selector of the logout button (lines 311-315):
\*            "visible", "absent" (it times out), "fault" (another error);
\*            the bare except of line 319 swallows both
\*   url      page.url contains "login", contains "signin", or neither
\*   shell    the loop over dashboard_selectors (lines 333-337): an element
\*            is "found", "none" exists, or a query_selector_all call raises
\*            ("fault") before one is found
\*   welcome  query_selector of each welcome selector (lines 341-348)
LoggedInInputs ==
    [logout : {"visible", "absent", "fault"},
     url : {"login", "signin", "other"},
     shell : {"found", "none", "fault"},
     welcome : [1..welcome_count -> {"found", "none", "fault"}]]

\* "login" not in current_url.lower() and "signin" not in ..., line 324
OnLoginPage_LoginOnly(url) == url = "login"
OnLoginPage(url) == url \in {"login", "signin"}

\* is_logged_in, lines 306-355: the result and the check that gave it
is_logged_in(inp) ==
    CASE inp.logout = "visible" -> [result |-> TRUE, by |-> "a"]
      [] inp.logout # "visible" /\ ~OnLoginPage(inp.url) /\ inp.shell = "found" ->
            [result |-> TRUE, by |-> "b"]
      [] inp.logout # "visible" /\ ~OnLoginPage(inp.url) /\ inp.shell = "fault" ->
            [result |-> FALSE, by |-> "except"]
      [] OTHER ->
            IF \E k \in 1..welcome_count : inp.welcome[k] = "found"
            THEN [result |-> TRUE, by |-> "c"]
            ELSE [result |-> FALSE, by |-> "none"]

\* ------------------------------------------------- search and verify
\* what verify_search_results meets:
\*   wait   wait_for_selector of the table rows (lines 426-430): "ok" or
\*          "timeout"
\*   query  query_selector_all of the rows (line 433)
\*   rows   per row, text_content and the substring test (lines 439-441):
\*          "match" (the text contains so_number), "other", "fault" (the
\*          call raises)
\*   msg    the lookup of a no-results message (line 446)
VerifyInputs ==
    [wait : {"ok", "timeout"}, query : {"ok", "fault"},
     rows : SeqsUpTo({"match", "other", "fault"}, MaxRows),
     msg : {"present", "absent", "fault"}]

\* for row in rows, lines 439-443: True at the first row that contains the
\* identifier, the outer handler (False) when a row lookup raises first
RECURSIVE ScanRows(_, _)
ScanRows(rows, k) ==
    IF k > Len(rows) THEN "none"
    ELSE IF rows[k] = "match" THEN "match"
    ELSE IF rows[k] = "fault" THEN "fault"
    ELSE ScanRows(rows, k + 1)

\* verify_search_results, lines 422-456
verify_search_results(inp) ==
    /\ inp.wait = "ok"
    /\ inp.query = "ok"
    /\ inp.rows # <<>>
    /\ ScanRows(inp.rows, 1) = "match"

\* what search_service_order meets: the search box (lines 393-397), the
\* typing and the waits (lines 400-406), and the verification
SearchInputs ==
    [box : {"ok", "missing"}, entry : {"ok", "fault"}, verify : VerifyInputs]

\* if results_found: return True else: return False, lines 411-416
SearchResult_Always(found) == TRUE
SearchResult(found) == found

\* search_service_order, lines 387-420: the result, whether the
\* verification was reached, and what it returned
search_service_order(inp) ==
    IF inp.box = "ok" /\ inp.entry = "ok"
    THEN [result |-> SearchResult(verify_search_results(inp.verify)),
          reached |-> TRUE, found |-> verify_search_results(inp.verify)]
    ELSE [result |-> FALSE, reached |-> FALSE, found |-> FALSE]

\* ------------------------------------------------- navigation, details
\* what navigate_to_job_search meets: the click of the menu (line 363), the
\* wait for the menu (line 364), the click of the link (line 367), the waits
\* for the page (lines 370-371), the wait for the search input (line 375),
\* and the screenshot of the error handler (line 384)
NavigateInputs ==
    [menu : {"ok", "fault"}, expand : {"ok", "fault"}, link : {"ok", "fault"},
     settle : {"ok", "fault"}, input : {"found", "timeout"},
     errshot : {"ok", "fault"}]

\* navigate_to_job_search, lines 357-385: the result and the clicks
\* attempted, in order
navigate_to_job_search(inp) ==
    LET clicks == IF inp.menu = "ok" /\ inp.expand = "ok"
                  THEN <<"menu", "link">> ELSE <<"menu">>
        done == /\ inp.menu = "ok" /\ inp.expand = "ok"
                /\ inp.link = "ok" /\ inp.settle = "ok"
    IN  [result |-> IF done THEN "true"
                    ELSE IF inp.errshot = "fault" THEN "raise" ELSE "false",
         clicks |-> clicks]

NavigateResults ==
    {navigate_to_job_search(inp).result : inp \in NavigateInputs}

\* what open_service_order_details meets: find_eye_button_for_so (line
\* 486, None when nothing is found or a lookup raises), the scroll (lines
\* 493-494), the click (line 497), the waits for the details page (lines
\* 500-505), the wait for the invoice image (line 509), the screenshot of
\* the error handler (line 517)
DetailsInputs ==
    [eye : {"found", "none"}, scroll : {"ok", "fault"},
     click : {"ok", "fault"}, settle : {"ok", "fault"},
     image : {"found", "timeout"}, errshot : {"ok", "fault"}]

\* open_service_order_details, lines 482-518
open_service_order_details(inp) ==
    LET clicked == inp.eye = "found" /\ inp.scroll = "ok"
    IN  [result |->
            IF inp.eye = "none" THEN "false"
            ELSE IF inp.scroll = "ok" /\ inp.click = "ok" /\ inp.settle = "ok"
                 THEN "true"
            ELSE IF inp.errshot = "fault" THEN "raise" ELSE "false",
         clicked |-> clicked]

DetailsResults ==
    {open_service_order_details(inp).result : inp \in DetailsInputs}

\* ------------------------------------------------- return to search
\* what return_to_search meets:
\*   t1  the click of the Job Search link and the waits (lines 639-644):
\*       "ok" (the search input is there afterwards), "not_back" (no call
\*       raises but the search input is absent), "fault" (a call raises)
\*   t2  page.go_back and its wait (lines 653-654)
\*   t3  page.goto of the job-search URL (line 658)
ReturnInputs ==
    [t1 : {"ok", "not_back", "fault"}, t2 : {"ok", "fault"},
     t3 : {"ok", "fault"}]

\* return_to_search, lines 635-659: the result, the tiers attempted in
\* order, and the tier whose success ended the call (0 when none)
return_to_search(inp) ==
    CASE inp.t1 = "ok" -> [result |-> "true", invoked |-> <<1>>, won |-> 1]
      [] inp.t1 = "not_back" ->
            [result |-> "false", invoked |-> <<1>>, won |-> 0]
      [] inp.t1 = "fault" /\ inp.t2 = "ok" ->
            [result |-> "true", invoked |-> <<1, 2>>, won |-> 2]
      [] inp.t1 = "fault" /\ inp.t2 = "fault" /\ inp.t3 = "ok" ->
            [result |-> "true", invoked |-> <<1, 2, 3>>, won |-> 3]
      [] OTHER -> [result |-> "raise", invoked |-> <<1, 2, 3>>, won |-> 0]

ReturnResults == {return_to_search(inp).result : inp \in ReturnInputs}

\* ------------------------------------------------- extraction chain
\* what find_and_save_invoice_image meets:
\*   pre     the scroll of lines 566-569 ("fault": one of its calls raises)
\*   s1      save_invoice_image_new_tab: no_link (the link does not appear),
\*           no_page (the click opens no page), load_fault (the new page does
\*           not settle), shot_fault (its screenshot raises), close_fault (the
\*           file is written, close raises), ok
\*   img     the inline image of lines 576-589: query_fault, none, attr_fault,
\*           nosrc, data_png, data_jpeg, data_jpg, data_other (another
\*           data: payload), data_fault (save_base64_image raises), http_ok,
\*           http_goto_fault, http_shot_fault, http_back_fault, other (a
\*           source that is neither data: nor http)
\*   s3      the element of lines 592-596: query_fault, none, shot_fault, ok
\*   errshot the screenshot of the handler, line 603
ExtractInputs ==
    [pre : {"ok", "fault"},
     s1 : {"no_link", "no_page", "load_fault", "shot_fault", "close_fault", "ok"},
     img : {"query_fault", "none", "attr_fault", "nosrc", "data_png",
            "data_jpeg", "data_jpg", "data_other", "data_fault", "http_ok",
            "http_goto_fault", "http_shot_fault", "http_back_fault", "other"},
     s3 : {"query_fault", "none", "shot_fault", "ok"},
     errshot : {"ok", "fault"}]

\* save_base64_image, lines 620-626: the extension of the file written
Base64Ext(img) ==
    CASE img = "data_png" -> "png"
      [] img \in {"data_jpeg", "data_jpg"} -> "jpg"
      [] OTHER -> "png"

\* save_invoice_image_new_tab, lines 520-560: never raises
NewTabResult(c) == c.s1 = "ok"
NewTabSaved_Nothing(c) == {}
NewTabSaved(c) == IF c.s1 \in {"close_fault", "ok"} THEN {"png"} ELSE {}
NewTabPagesOpen(c) ==
    IF c.s1 \in {"load_fault", "shot_fault", "close_fault"} THEN 1 ELSE 0

\* except Exception of find_and_save_invoice_image, lines 601-604
ExtractErrorHandler(c, inv, saved, open) ==
    [result |-> IF c.errshot = "fault" THEN "raise" ELSE "false",
     invoked |-> inv, won |-> 0, saved |-> saved, pagesOpen |-> open]

ExtractReturn(res, inv, w, saved, open) ==
    [result |-> res, invoked |-> inv, won |-> w, saved |-> saved,
     pagesOpen |-> open]

\* the order in which the chain goes from strategy 2 on, lines 575-599
\* (mutant: the region screenshot is tried before the inline image)
ChainAfterNewTab_RegionFirst(c) ==
    LET saved1 == NewTabSaved(c)
        open1 == NewTabPagesOpen(c)
    IN  CASE c.s3 = "ok" ->
               ExtractReturn("true", <<1, 3>>, 3, saved1 \cup {"png"}, open1)
          [] c.s3 \in {"query_fault", "shot_fault"} ->
               ExtractErrorHandler(c, <<1, 3>>, saved1, open1)
          [] OTHER ->
               IF c.img \in {"data_png", "data_jpeg", "data_jpg", "data_other"}
               THEN ExtractReturn("true", <<1, 3, 2>>, 2,
                                  saved1 \cup {Base64Ext(c.img)}, open1)
               ELSE ExtractReturn("false", <<1, 3, 2>>, 0, saved1, open1)

ChainAfterNewTab(c) ==
    LET saved1 == NewTabSaved(c)
        open1 == NewTabPagesOpen(c)
    IN  CASE c.img \in {"query_fault", "attr_fault", "data_fault",
                        "http_goto_fault", "http_shot_fault"} ->
               ExtractErrorHandler(c, <<1, 2>>, saved1, open1)
          [] c.img = "http_back_fault" ->
               ExtractErrorHandler(c, <<1, 2>>, saved1 \cup {"png"}, open1)
          [] c.img \in {"data_png", "data_jpeg", "data_jpg", "data_other"} ->
               ExtractReturn("true", <<1, 2>>, 2,
                             saved1 \cup {Base64Ext(c.img)}, open1)
          [] c.img = "http_ok" ->
               ExtractReturn("true", <<1, 2>>, 2, saved1 \cup {"png"}, open1)
          [] OTHER ->   \* none, nosrc, other: last resort, lines 591-599
               CASE c.s3 = "ok" ->
                      ExtractReturn("true", <<1, 2, 3>>, 3,
                                    saved1 \cup {"png"}, open1)
                 [] c.s3 = "none" ->
                      ExtractReturn("false", <<1, 2, 3>>, 0, saved1, open1)
                 [] OTHER ->
                      ExtractErrorHandler(c, <<1, 2, 3>>, saved1, open1)

\* find_and_save_invoice_image, lines 562-604
find_and_save_invoice_image(c) ==
    IF c.pre = "fault"
    THEN ExtractErrorHandler(c, <<>>, {}, 0)
    ELSE IF NewTabResult(c)
         THEN ExtractReturn("true", <<1>>, 1, NewTabSaved(c), NewTabPagesOpen(c))
         ELSE ChainAfterNewTab(c)

ExtractOutcomes == {find_and_save_invoice_image(c) : c \in ExtractInputs}

NoExtract == [result |-> "none", invoked |-> <<>>, won |-> 0, saved |-> {},
              pagesOpen |-> 0]

\* the file {download_dir}/{so_number}.{ext}, lines 548, 587, 594, 628
SavePath(so_number, ext) == [id |-> so_number, ext |-> ext]

\* screenshot(path=...) and open(path, 'wb') replace an existing file
\* (mutant: a second file is kept next to an existing one)
WriteFile_KeepBoth(dir, path) ==
    IF path \in dir THEN dir \cup {[id |-> path.id, ext |-> "copy"]}
    ELSE dir \cup {path}
WriteFile(dir, path) == dir \cup {path}

RECURSIVE WriteFiles(_, _)
WriteFiles(dir, paths) ==
    IF paths = {} THEN dir
    ELSE LET q == CHOOSE x \in paths : TRUE
         IN  WriteFiles(WriteFile(dir, q), paths \ {q})

\* the for loop takes the next element, line 729
NextIndex_Skip(k) == k + 2
NextIndex(k) == k + 1

\* self.stats["failed"] += 1, line 741
CountFailed_AsSkipped(st) == [st EXCEPT !.skipped = @ + 1]
CountFailed(st) == [st EXCEPT !.failed = @ + 1]

\* except KeyboardInterrupt / except Exception of run, lines 829-834: both
\* log and swallow, run returns None
RunSurfaces(exc) == "none"

\* page.context.storage_state(path="auth_state.json"), line 280
StateFile == "auth_state.json"

\* login returns True only after storage_state has written the file,
\* lines 276-281
StateFilesWritten(result) == IF result = "true" THEN {StateFile} ELSE {}

\* setup_browser, lines 194-197: the configured file is passed to
\* new_context when the key is set and the file exists
StorageStateToLoad(cfg, files) ==
    IF cfg # None /\ cfg \in files THEN cfg ELSE None

\* values of config["storage_state"]: key absent (the dashboard's default
\* configuration), the name login writes, another name
StorageStateConfigs == {None, "auth_state.json", "session.json"}

\* behaviour of the CRM page for one identifier: search and details
\* results (lines 674-684) and the extraction faults
Capabilities ==
    [search : BOOLEAN, details : BOOLEAN, extract : ExtractInputs]

NoCap == [search |-> FALSE, details |-> FALSE,
          extract |-> [pre |-> "ok", s1 |-> "no_link", img |-> "none",
                       s3 |-> "none", errshot |-> "ok"]]

NoRun == [login |-> "none", written |-> {}, outcome |-> "none",
          saved |-> {}, dir |-> {}]

\* an automation thread that was not started yet
NoThread == [pc |-> "unborn", cancelled |-> FALSE, handed |-> 0]

\* processing of order i has passed the entry check of its first attempt
InFlight ==
    \/ pc \in {"po_search", "po_details", "po_extract", "po_except"}
    \/ pc = "po_check" /\ retry_count > 0

\* ------------------------------------------------------------------- Init
Init ==
    /\ pc = "init"
    /\ excel \in InputLists
    /\ max_retries \in 0..MaxRetriesCfg
    /\ so_numbers = <<>>
    /\ i = 1
    /\ stats = InitStats
    /\ cancelled = FALSE
    /\ retry_count = 0
    /\ success = FALSE
    /\ pending = FALSE
    /\ browser = "none"
    /\ failed_orders = <<>>
    /\ summary_file = <<>>
    /\ closeCalls = 0
    /\ pageUsedAfterClose = FALSE
    /\ outcomes = <<>>
    /\ appends = [k \in 1..Len(excel) |-> 0]
    /\ attemptSteps = <<>>
    /\ attemptsMade = 0
    /\ ranWhileCancelled = {}
    /\ cancelAt = [pc |-> "never", order |-> 0, handed |-> 0]
    /\ loopEntered = FALSE
    /\ login_success = "none"
    /\ navigation_success = "none"
    /\ download_dir = {}
    /\ propagated = "none"
    /\ surfaced = "pending"
    /\ loginLog = NoLogin
    /\ lastExtract = NoExtract
    /\ processed = <<>>
    /\ returnCalls = 0
    /\ config_storage_state = None
    /\ cwd_files = {}
    /\ context_state = None
    /\ run_no = "first"
    /\ cap = NoCap
    /\ firstRun = NoRun
    /\ fn_name = "none"
    /\ fn_arg = "none"
    /\ fn_ret = "none"
    /\ automation_running = FALSE
    /\ ui_pc = "idle"
    /\ thr = [t \in 1..MaxThreads |-> NoThread]
    /\ cancelTargets = {}

\* ---------------------------------------------------------------- actions
\* the caller sets automation.cancelled = True at any moment
SetCancelled ==
    /\ pc \notin {"done", "returned"}
    /\ ~cancelled
    /\ cancelled' = TRUE
    /\ cancelAt' = [pc |-> pc, order |-> IF InFlight THEN i ELSE 0,
                    handed |-> Len(processed)]
    /\ UNCHANGED <<pc, excel, max_retries, so_numbers, i, stats, retry_count,
                   success, pending, browser, failed_orders, summary_file,
                   closeCalls, pageUsedAfterClose, outcomes, appends,
                   attemptSteps, attemptsMade, ranWhileCancelled, loopEntered>>
    /\ UNCHANGED <<login_success, download_dir, propagated, surfaced,
                   loginLog, lastExtract, processed, returnCalls>>
    /\ UNCHANGED <<rerunVars, funVars, dashVars, navigation_success, cwd_files, context_state>>

\* run_automation, line 705
RunAutomationBegin ==
    /\ pc = "init"
    /\ stats' = [stats EXCEPT !.start_time = IsSet]
    /\ pc' = "load"
    /\ UNCHANGED <<excel, max_retries, so_numbers, i, cancelled, retry_count,
                   success, pending, browser, failed_orders, summary_file,
                   closeCalls, pageUsedAfterClose, outcomes, appends,
                   attemptSteps, attemptsMade, ranWhileCancelled, cancelAt,
                   loopEntered>>
    /\ UNCHANGED <<login_success, download_dir, propagated, surfaced,
                   loginLog, lastExtract, processed, returnCalls>>
    /\ UNCHANGED <<rerunVars, funVars, dashVars, navigation_success, cwd_files, context_state>>

\* load_service_orders and the assignment of total, lines 709-710
LoadServiceOrders ==
    /\ pc = "load"
    /\ \E readOk \in BOOLEAN :
          IF readOk /\ Len(excel) > 0
          THEN /\ so_numbers' = excel
               /\ stats' = [stats EXCEPT !.total = Len(excel)]
               /\ pc' = "setup"
          ELSE /\ pc' = "outer_except"
               /\ UNCHANGED <<so_numbers, stats>>
    /\ UNCHANGED <<excel, max_retries, i, cancelled, retry_count, success,
                   pending, browser, failed_orders, summary_file, closeCalls,
                   pageUsedAfterClose, outcomes, appends, attemptSteps,
                   attemptsMade, ranWhileCancelled, cancelAt, loopEntered>>
    /\ UNCHANGED <<login_success, download_dir, propagated, surfaced,
                   loginLog, lastExtract, processed, returnCalls>>
    /\ UNCHANGED <<rerunVars, funVars, dashVars, navigation_success, cwd_files, context_state>>

\* setup_browser, line 713
SetupBrowser ==
    /\ pc = "setup"
    /\ \E ok \in BOOLEAN :
          IF ok THEN /\ browser' = "open"
                     /\ context_state' =
                            StorageStateToLoad(config_storage_state, cwd_files)
                     /\ pc' = "login"
                ELSE /\ browser' = browser
                     /\ context_state' = context_state
                     /\ pc' = "outer_except"
    /\ UNCHANGED <<excel, max_retries, so_numbers, i, stats, cancelled,
                   retry_count, success, pending, failed_orders, summary_file,
                   closeCalls, pageUsedAfterClose, outcomes, appends,
                   attemptSteps, attemptsMade, ranWhileCancelled, cancelAt,
                   loopEntered>>
    /\ UNCHANGED <<login_success, download_dir, propagated, surfaced,
                   loginLog, lastExtract, processed, returnCalls>>
    /\ UNCHANGED <<rerunVars, funVars, dashVars, navigation_success, cwd_files>>

\* login, lines 717-720: True, False (return), or the screenshot of its own
\* error handler faults and the exception reaches run_automation
Login ==
    /\ pc = "login"
    /\ \E r \in LoginOutcomes :
          /\ loginLog' = r
          /\ login_success' = r.result
          /\ cwd_files' = cwd_files \cup StateFilesWritten(r.result)
          /\ pc' = CASE r.result = "true" -> "navigate"
                     [] r.result = "false" -> LoginFailedTarget
                     [] OTHER -> "inner_except"
    /\ UsePage
    /\ UNCHANGED <<progVars, closeCalls, outcomes, appends, attemptSteps,
                   attemptsMade, ranWhileCancelled, cancelAt, loopEntered>>
    /\ UNCHANGED <<download_dir, propagated, surfaced,
                   lastExtract, processed, returnCalls>>
    /\ UNCHANGED <<rerunVars, funVars, dashVars, navigation_success, context_state>>

\* navigate_to_job_search, lines 723-726 (the observation of the login
\* call is dropped here)
NavigateToJobSearch ==
    /\ pc = "navigate"
    /\ loginLog' = NoLogin
    /\ \E r \in NavigateResults :
          /\ navigation_success' = r
          /\ pc' = CASE r = "true" -> "loop"
                     [] r = "false" -> NavFailedTarget
                     [] OTHER -> "inner_except"
    /\ UsePage
    /\ UNCHANGED <<progVars, closeCalls, outcomes, appends, attemptSteps,
                   attemptsMade, ranWhileCancelled, cancelAt, loopEntered>>
    /\ UNCHANGED <<login_success, download_dir, propagated,
                   surfaced, lastExtract, processed, returnCalls>>
    /\ UNCHANGED <<rerunVars, funVars, dashVars, cwd_files, context_state>>

\* for i, so_number in enumerate(so_numbers, 1), line 729, and the call of
\* process_service_order(page, so_number) with retry_count = 0, line 735
LoopHead ==
    /\ pc = "loop"
    /\ loopEntered' = TRUE
    /\ IF i <= Len(so_numbers)
       THEN /\ pc' = "po_check"
            /\ retry_count' = 0
            /\ processed' = Append(processed, so_numbers[i])
       ELSE /\ pc' = "summary1"
            /\ UNCHANGED <<retry_count, processed>>
    /\ UNCHANGED <<excel, max_retries, so_numbers, i, stats, cancelled,
                   success, pending, browser, failed_orders, summary_file,
                   closeCalls, pageUsedAfterClose, outcomes, appends,
                   attemptSteps, attemptsMade, ranWhileCancelled, cancelAt>>
    /\ UNCHANGED <<login_success, download_dir, propagated,
                   surfaced, loginLog, lastExtract, returnCalls>>
    /\ UNCHANGED <<rerunVars, funVars, dashVars, navigation_success, cwd_files, context_state>>

\* process_service_order entry, lines 663-667
ProcessCheckCancelled ==
    /\ pc = "po_check"
    /\ attemptSteps' = <<>>
    /\ IF CancelledAtEntry(cancelled)
       THEN ReturnFromProcess(FALSE) /\ UNCHANGED attemptsMade
       ELSE /\ pc' = FirstStep(retry_count)
            /\ attemptsMade' = attemptsMade + 1
            /\ UNCHANGED <<success, outcomes>>
    /\ UNCHANGED <<excel, max_retries, so_numbers, i, stats, cancelled,
                   retry_count, pending, browser, failed_orders, summary_file,
                   closeCalls, pageUsedAfterClose, appends, ranWhileCancelled,
                   cancelAt, loopEntered>>
    /\ UNCHANGED <<login_success, download_dir, propagated, surfaced,
                   loginLog, lastExtract, processed, returnCalls>>
    /\ UNCHANGED <<rerunVars, funVars, dashVars, navigation_success, cwd_files, context_state>>

\* step 1, lines 673-676; search_service_order never raises
SearchServiceOrder ==
    /\ pc = "po_search"
    /\ \E r \in {"true", "false"} :
          /\ Record("search", r)
          /\ IF r = "true"
             THEN pc' = "po_details" /\ UNCHANGED <<success, outcomes>>
             ELSE ReturnFromProcess(FALSE)
    /\ RanStep("search")
    /\ UsePage
    /\ UNCHANGED <<excel, max_retries, so_numbers, i, stats, cancelled,
                   retry_count, pending, browser, failed_orders, summary_file,
                   closeCalls, appends, cancelAt, loopEntered>>
    /\ UNCHANGED <<login_success, download_dir, propagated, surfaced,
                   loginLog, lastExtract, processed, returnCalls>>
    /\ UNCHANGED <<rerunVars, funVars, dashVars, navigation_success, cwd_files, context_state>>

\* step 2, lines 679-682; open_service_order_details raises when the
\* screenshot of its error handler faults
OpenServiceOrderDetails ==
    /\ pc = "po_details"
    /\ \E r \in DetailsResults :
          /\ Record("details", r)
          /\ CASE r = "true" -> pc' = "po_extract" /\ UNCHANGED <<success, outcomes>>
               [] r = "false" -> ReturnFromProcess(FALSE)
               [] OTHER -> pc' = "po_except" /\ UNCHANGED <<success, outcomes>>
    /\ RanStep("details")
    /\ UsePage
    /\ UNCHANGED <<excel, max_retries, so_numbers, i, stats, cancelled,
                   retry_count, pending, browser, failed_orders, summary_file,
                   closeCalls, appends, cancelAt, loopEntered>>
    /\ UNCHANGED <<login_success, download_dir, propagated, surfaced,
                   loginLog, lastExtract, processed, returnCalls>>
    /\ UNCHANGED <<rerunVars, funVars, dashVars, navigation_success, cwd_files, context_state>>

\* step 3, lines 685-691; find_and_save_invoice_image raises when the
\* screenshot of its error handler faults
FindAndSaveInvoiceImage ==
    /\ pc = "po_extract"
    /\ \E r \in ExtractOutcomes :
          /\ Record("extract", r.result)
          /\ lastExtract' = r
          /\ download_dir' = WriteFiles(download_dir,
                                 {SavePath(so_numbers[i], e) : e \in r.saved})
          /\ CASE r.result = "true" -> ReturnFromProcess(TRUE)
               [] r.result = "false" -> ReturnFromProcess(FALSE)
               [] OTHER -> pc' = "po_except" /\ UNCHANGED <<success, outcomes>>
    /\ RanStep("extract")
    /\ UsePage
    /\ UNCHANGED <<excel, max_retries, so_numbers, i, stats, cancelled,
                   retry_count, pending, browser, failed_orders, summary_file,
                   closeCalls, appends, cancelAt, loopEntered>>
    /\ UNCHANGED <<login_success, propagated, surfaced,
                   loginLog, processed, returnCalls>>
    /\ UNCHANGED <<rerunVars, funVars, dashVars, navigation_success, cwd_files, context_state>>

\* except Exception of process_service_order, lines 693-701: the backoff
\* wait_for_timeout may fault, and then the exception leaves the call
ProcessExcept ==
    /\ pc = "po_except"
    /\ lastExtract' = NoExtract
    /\ IF MayRetry(retry_count, max_retries)
       THEN \E waitOk \in BOOLEAN :
               /\ UsePage
               /\ IF waitOk
                  THEN /\ retry_count' = retry_count + 1
                       /\ pc' = RetryEntry
                       /\ UNCHANGED <<success, outcomes>>
                  ELSE /\ outcomes' = Append(outcomes, "Critical")
                       /\ pc' = "critical"
                       /\ UNCHANGED <<success, retry_count>>
       ELSE /\ ReturnFromProcess(FALSE)
            /\ UNCHANGED <<retry_count, pageUsedAfterClose>>
    /\ UNCHANGED <<excel, max_retries, so_numbers, i, stats, cancelled,
                   pending, browser, failed_orders, summary_file, closeCalls,
                   appends, attemptSteps, attemptsMade, ranWhileCancelled,
                   cancelAt, loopEntered>>
    /\ UNCHANGED <<login_success, download_dir, propagated,
                   surfaced, loginLog, processed, returnCalls>>
    /\ UNCHANGED <<rerunVars, funVars, dashVars, navigation_success, cwd_files, context_state>>

\* the classification of the result, lines 737-745; the append to
\* failed_orders.txt may fault, after failed was incremented
Bookkeep ==
    /\ pc = "bookkeep"
    /\ lastExtract' = NoExtract
    /\ IF success
       THEN /\ stats' = CountSuccess(stats)
            /\ pc' = "after_order"
            /\ UNCHANGED <<failed_orders, appends>>
       ELSE /\ stats' = CountFailed(stats)
            /\ \E appendOk \in BOOLEAN :
                  IF appendOk
                  THEN /\ failed_orders' = Append(failed_orders, so_numbers[i])
                       /\ appends' = [appends EXCEPT ![i] = @ + 1]
                       /\ pc' = "after_order"
                  ELSE /\ pc' = "critical"
                       /\ UNCHANGED <<failed_orders, appends>>
    /\ attemptSteps' = <<>>
    /\ attemptsMade' = 0
    /\ UNCHANGED <<excel, max_retries, so_numbers, i, cancelled, retry_count,
                   success, pending, browser, summary_file, closeCalls,
                   pageUsedAfterClose, outcomes, ranWhileCancelled, cancelAt,
                   loopEntered>>
    /\ UNCHANGED <<login_success, download_dir, propagated,
                   surfaced, loginLog, processed, returnCalls>>
    /\ UNCHANGED <<rerunVars, funVars, dashVars, navigation_success, cwd_files, context_state>>

\* except Exception of the loop body, lines 747-750
CriticalError ==
    /\ pc = "critical"
    /\ stats' = CountCritical(stats)
    /\ UsePage
    /\ \E shotOk \in BOOLEAN :
          pc' = IF shotOk THEN "after_order" ELSE "inner_except"
    /\ attemptSteps' = <<>>
    /\ attemptsMade' = 0
    /\ UNCHANGED <<excel, max_retries, so_numbers, i, cancelled, retry_count,
                   success, pending, browser, failed_orders, summary_file,
                   closeCalls, outcomes, appends, ranWhileCancelled, cancelAt,
                   loopEntered>>
    /\ UNCHANGED <<login_success, download_dir, propagated, surfaced,
                   loginLog, lastExtract, processed, returnCalls>>
    /\ UNCHANGED <<rerunVars, funVars, dashVars, navigation_success, cwd_files, context_state>>

\* lines 752-754, and the step of the for loop; return_to_search raises
\* when its last-resort goto faults, and its result is ignored
ReturnToSearch ==
    /\ pc = "after_order"
    /\ IF i < Len(so_numbers)
       THEN /\ UsePage
            /\ returnCalls' = returnCalls + 1
            /\ \E r \in ReturnResults :
                  IF r = "raise"
                  THEN pc' = "inner_except" /\ UNCHANGED i
                  ELSE pc' = "loop" /\ i' = NextIndex(i)
       ELSE /\ pc' = "loop"
            /\ i' = NextIndex(i)
            /\ UNCHANGED <<pageUsedAfterClose, returnCalls>>
    /\ UNCHANGED <<excel, max_retries, so_numbers, stats, cancelled,
                   retry_count, success, pending, browser, failed_orders,
                   summary_file, closeCalls, outcomes, appends, attemptSteps,
                   attemptsMade, ranWhileCancelled, cancelAt, loopEntered>>
    /\ UNCHANGED <<login_success, download_dir, propagated,
                   surfaced, loginLog, lastExtract, processed>>
    /\ UNCHANGED <<rerunVars, funVars, dashVars, navigation_success, cwd_files, context_state>>

\* self.print_summary() after the loop, line 757
PrintSummaryAfterLoop ==
    /\ pc = "summary1"
    /\ IF PrintSummaryRaises(stats)
       THEN pc' = "inner_except" /\ UNCHANGED summary_file
       ELSE pc' = "cleanup" /\ summary_file' = <<SummaryContent(stats)>>
    /\ UNCHANGED <<excel, max_retries, so_numbers, i, stats, cancelled,
                   retry_count, success, pending, browser, failed_orders,
                   closeCalls, pageUsedAfterClose, outcomes, appends,
                   attemptSteps, attemptsMade, ranWhileCancelled, cancelAt,
                   loopEntered>>
    /\ UNCHANGED <<login_success, download_dir, propagated, surfaced,
                   loginLog, lastExtract, processed, returnCalls>>
    /\ UNCHANGED <<rerunVars, funVars, dashVars, navigation_success, cwd_files, context_state>>

\* except Exception of the inner try, lines 759-761; a fault of the
\* screenshot propagates through the inner finally to the outer except
InnerExcept ==
    /\ pc = "inner_except"
    /\ UsePage
    /\ \E shotOk \in BOOLEAN : pending' = ~shotOk
    /\ pc' = "cleanup"
    /\ UNCHANGED <<excel, max_retries, so_numbers, i, stats, cancelled,
                   retry_count, success, browser, failed_orders, summary_file,
                   closeCalls, outcomes, appends, attemptSteps, attemptsMade,
                   ranWhileCancelled, cancelAt, loopEntered>>
    /\ UNCHANGED <<login_success, download_dir, propagated, surfaced,
                   loginLog, lastExtract, processed, returnCalls>>
    /\ UNCHANGED <<rerunVars, funVars, dashVars, navigation_success, cwd_files, context_state>>

\* inner finally, lines 763-773; faults of close() and stop() are swallowed
Cleanup ==
    /\ pc = "cleanup"
    /\ browser' = "closed"
    /\ closeCalls' = closeCalls + 1
    /\ pc' = IF pending THEN "outer_except" ELSE "outer_finally"
    /\ pending' = FALSE
    /\ UNCHANGED <<excel, max_retries, so_numbers, i, stats, cancelled,
                   retry_count, success, failed_orders, summary_file,
                   pageUsedAfterClose, outcomes, appends, attemptSteps,
                   attemptsMade, ranWhileCancelled, cancelAt, loopEntered>>
    /\ UNCHANGED <<login_success, download_dir, propagated, surfaced,
                   loginLog, lastExtract, processed, returnCalls>>
    /\ UNCHANGED <<rerunVars, funVars, dashVars, navigation_success, cwd_files, context_state>>

\* outer except Exception, lines 775-776
OuterExcept ==
    /\ pc = "outer_except"
    /\ pc' = "outer_finally"
    /\ UNCHANGED <<progVars, closeCalls, pageUsedAfterClose, outcomes, appends,
                   attemptSteps, attemptsMade, ranWhileCancelled, cancelAt,
                   loopEntered>>
    /\ UNCHANGED <<login_success, download_dir, propagated, surfaced,
                   loginLog, lastExtract, processed, returnCalls>>
    /\ UNCHANGED <<rerunVars, funVars, dashVars, navigation_success, cwd_files, context_state>>

\* outer finally, lines 778-781
OuterFinally ==
    /\ pc = "outer_finally"
    /\ LET st == FinalizeStats(stats) IN
          /\ stats' = st
          /\ summary_file' = IF PrintSummaryRaises(st) THEN summary_file
                             ELSE <<SummaryContent(st)>>
          /\ propagated' = IF PrintSummaryRaises(st) THEN "TypeError"
                           ELSE "none"
    /\ pc' = "done"
    /\ UNCHANGED <<excel, max_retries, so_numbers, i, cancelled, retry_count,
                   success, pending, browser, failed_orders, closeCalls,
                   pageUsedAfterClose, outcomes, appends, attemptSteps,
                   attemptsMade, ranWhileCancelled, cancelAt, loopEntered>>
    /\ UNCHANGED <<login_success, download_dir, surfaced,
                   loginLog, lastExtract, processed, returnCalls>>
    /\ UNCHANGED <<rerunVars, funVars, dashVars, navigation_success, cwd_files, context_state>>

\* run, lines 817-834: asyncio.run(self.run_automation()) has returned
\* or raised
RunReturn ==
    /\ pc = "done"
    /\ surfaced' = RunSurfaces(propagated)
    /\ pc' = "returned"
    /\ UNCHANGED <<progVars, closeCalls, pageUsedAfterClose, outcomes, appends,
                   attemptSteps, attemptsMade, ranWhileCancelled, cancelAt,
                   loopEntered, login_success, download_dir, propagated,
                   loginLog, lastExtract, processed, returnCalls>>
    /\ UNCHANGED <<rerunVars, funVars, dashVars, navigation_success, cwd_files, context_state>>

RunStep ==
    \/ RunAutomationBegin
    \/ LoadServiceOrders
    \/ SetupBrowser
    \/ Login
    \/ NavigateToJobSearch
    \/ LoopHead
    \/ ProcessCheckCancelled
    \/ SearchServiceOrder
    \/ OpenServiceOrderDetails
    \/ FindAndSaveInvoiceImage
    \/ ProcessExcept
    \/ Bookkeep
    \/ CriticalError
    \/ ReturnToSearch
    \/ PrintSummaryAfterLoop
    \/ InnerExcept
    \/ Cleanup
    \/ OuterExcept
    \/ OuterFinally
    \/ RunReturn

Next == RunStep \/ SetCancelled

Spec == Init /\ [][Next]_vars

\* the event loop runs the coroutine to its end
FairSpec == Spec /\ WF_vars(RunStep)

\* ------------------------------------------ two consecutive runs, one id
\* variables the consecutive-run scenario leaves alone
mainOnly == <<excel, max_retries, so_numbers, i, stats, cancelled, retry_count,
              success, pending, browser, failed_orders, summary_file,
              closeCalls, pageUsedAfterClose, appends, attemptSteps,
              attemptsMade, ranWhileCancelled, cancelAt, loopEntered,
              propagated, surfaced, loginLog, processed, returnCalls,
              navigation_success>>

\* two runs of the program on a one-identifier list, with the same
\* configuration; the working directory may hold session files of older runs
RerunInit ==
    /\ pc = "r_setup"
    /\ excel \in {<<id>> : id \in IdSet}
    /\ max_retries = 0
    /\ so_numbers = excel
    /\ i = 1
    /\ stats = InitStats
    /\ cancelled = FALSE
    /\ retry_count = 0
    /\ success = FALSE
    /\ pending = FALSE
    /\ browser = "none"
    /\ failed_orders = <<>>
    /\ summary_file = <<>>
    /\ closeCalls = 0
    /\ pageUsedAfterClose = FALSE
    /\ outcomes = <<>>
    /\ appends = <<0>>
    /\ attemptSteps = <<>>
    /\ attemptsMade = 0
    /\ ranWhileCancelled = {}
    /\ cancelAt = [pc |-> "never", order |-> 0, handed |-> 0]
    /\ loopEntered = FALSE
    /\ login_success = "none"
    /\ navigation_success = "none"
    /\ download_dir = {}
    /\ propagated = "none"
    /\ surfaced = "pending"
    /\ loginLog = NoLogin
    /\ lastExtract = NoExtract
    /\ processed = <<>>
    /\ returnCalls = 0
    /\ config_storage_state \in StorageStateConfigs
    /\ cwd_files \in SUBSET (StorageStateConfigs \ {None})
    /\ context_state = None
    /\ run_no = "first"
    /\ cap = NoCap
    /\ firstRun = NoRun
    /\ fn_name = "none"
    /\ fn_arg = "none"
    /\ fn_ret = "none"
    /\ automation_running = FALSE
    /\ ui_pc = "idle"
    /\ thr = [t \in 1..MaxThreads |-> NoThread]
    /\ cancelTargets = {}

\* setup_browser, lines 183-199 (a launch fault ends the run)
RerunSetupBrowser ==
    /\ pc = "r_setup"
    /\ \E ok \in BOOLEAN :
          IF ok THEN /\ context_state' =
                            StorageStateToLoad(config_storage_state, cwd_files)
                     /\ pc' = "r_login"
                ELSE /\ context_state' = context_state
                     /\ pc' = "r_end"
    /\ UNCHANGED <<mainOnly, funVars, dashVars, rerunVars, cwd_files, login_success, download_dir,
                   outcomes, lastExtract>>

\* login and navigate_to_job_search, lines 715-726: the order loop is
\* reached only when both return True
RerunLogin ==
    /\ pc = "r_login"
    /\ \E result \in {r.result : r \in LoginOutcomes}, nav \in BOOLEAN :
          /\ login_success' = result
          /\ cwd_files' = cwd_files \cup StateFilesWritten(result)
          /\ pc' = IF result = "true" /\ nav THEN "r_pipeline" ELSE "r_end"
    /\ UNCHANGED <<mainOnly, funVars, dashVars, rerunVars, context_state, download_dir, outcomes,
                   lastExtract>>

\* process_service_order on the identifier, lines 674-691: search, details,
\* extraction; the second run meets the page behaviour of the first run
\* (an extraction that raises is retried against the same behaviour and
\* ends as a failure, lines 693-701 and 747-750)
RerunPipeline ==
    /\ pc = "r_pipeline"
    /\ \E c \in (IF run_no = "first" THEN Capabilities ELSE {cap}) :
          LET r == IF c.search /\ c.details
                   THEN find_and_save_invoice_image(c.extract)
                   ELSE NoExtract
          IN  /\ cap' = c
              /\ lastExtract' = r
              /\ download_dir' =
                    WriteFiles(download_dir,
                               {SavePath(so_numbers[i], e) : e \in r.saved})
              /\ outcomes' = Append(outcomes, IF r.result = "true"
                                                THEN "Success" ELSE "Failed")
    /\ pc' = "r_end"
    /\ UNCHANGED <<mainOnly, funVars, dashVars, config_storage_state, run_no, firstRun, cwd_files,
                   context_state, login_success>>

\* the program is started again: a new process with the same configuration
\* and the same files on disk
RerunAgain ==
    /\ pc = "r_end"
    /\ run_no = "first"
    /\ firstRun' = [login |-> login_success,
                    written |-> StateFilesWritten(login_success),
                    outcome |-> IF outcomes = <<>> THEN "none" ELSE outcomes[1],
                    saved |-> {SavePath(so_numbers[i], e) :
                                  e \in lastExtract.saved},
                    dir |-> download_dir]
    /\ run_no' = "second"
    /\ context_state' = None
    /\ login_success' = "none"
    /\ lastExtract' = NoExtract
    /\ outcomes' = <<>>
    /\ pc' = "r_setup"
    /\ UNCHANGED <<mainOnly, funVars, dashVars, config_storage_state, cap, cwd_files,
                   download_dir>>

RerunNext ==
    \/ RerunSetupBrowser
    \/ RerunLogin
    \/ RerunPipeline
    \/ RerunAgain

RerunSpec == RerunInit /\ [][RerunNext]_vars

\* ------------------------------------------------- one function call
\* a page-level function is called once, on a page that behaves as fn_arg
FunInit ==
    /\ Init
    /\ excel = <<>>
    /\ max_retries = 0

ApplyIsLoggedIn ==
    /\ fn_name = "none"
    /\ \E inp \in LoggedInInputs :
          /\ fn_arg' = inp
          /\ fn_ret' = is_logged_in(inp)
    /\ fn_name' = "is_logged_in"
    /\ UNCHANGED <<mainOnly, rerunVars, dashVars, pc, outcomes, login_success,
                   download_dir, lastExtract, cwd_files, context_state>>

ApplyReturnToSearch ==
    /\ fn_name = "none"
    /\ \E inp \in ReturnInputs :
          /\ fn_arg' = inp
          /\ fn_ret' = return_to_search(inp)
    /\ fn_name' = "return_to_search"
    /\ UNCHANGED <<mainOnly, rerunVars, dashVars, pc, outcomes, login_success,
                   download_dir, lastExtract, cwd_files, context_state>>

ApplyLogin ==
    /\ fn_name = "none"
    /\ \E inp \in LoginInputs :
          /\ fn_arg' = inp
          /\ fn_ret' = [log |-> login(inp), diag |-> LoginDiagnostics(inp)]
    /\ fn_name' = "login"
    /\ UNCHANGED <<mainOnly, rerunVars, dashVars, pc, outcomes, login_success,
                   download_dir, lastExtract, cwd_files, context_state>>

ApplySearch ==
    /\ fn_name = "none"
    /\ \E inp \in SearchInputs :
          /\ fn_arg' = inp
          /\ fn_ret' = search_service_order(inp)
    /\ fn_name' = "search_service_order"
    /\ UNCHANGED <<mainOnly, rerunVars, dashVars, pc, outcomes, login_success,
                   download_dir, lastExtract, cwd_files, context_state>>

ApplyNavigate ==
    /\ fn_name = "none"
    /\ \E inp \in NavigateInputs :
          /\ fn_arg' = inp
          /\ fn_ret' = navigate_to_job_search(inp)
    /\ fn_name' = "navigate_to_job_search"
    /\ UNCHANGED <<mainOnly, rerunVars, dashVars, pc, outcomes, login_success,
                   download_dir, lastExtract, cwd_files, context_state>>

ApplyOpenDetails ==
    /\ fn_name = "none"
    /\ \E inp \in DetailsInputs :
          /\ fn_arg' = inp
          /\ fn_ret' = open_service_order_details(inp)
    /\ fn_name' = "open_service_order_details"
    /\ UNCHANGED <<mainOnly, rerunVars, dashVars, pc, outcomes, login_success,
                   download_dir, lastExtract, cwd_files, context_state>>

FunNext ==
    \/ ApplyIsLoggedIn
    \/ ApplyNavigate
    \/ ApplyOpenDetails
    \/ ApplySearch
    \/ ApplyLogin
    \/ ApplyReturnToSearch

FunSpec == FunInit /\ [][FunNext]_vars

\* ------------------------------------------------------- the dashboard
\* variables the dashboard scenario leaves alone
dashIdle == <<mainOnly, rerunVars, funVars, pc, outcomes, login_success,
              download_dir, lastExtract, cwd_files, context_state>>

DashInit ==
    /\ Init
    /\ excel = <<>>
    /\ max_retries = 0

\* Start Automation, streamlit_app.py lines 481-486 and 757-761: the button
\* is rendered only while automation_running is false; start_automation
\* starts the thread first
UIStart ==
    /\ ui_pc = "idle"
    /\ ~automation_running
    /\ \E t \in 1..MaxThreads :
          /\ thr[t].pc = "unborn"
          /\ \A u \in 1..(t - 1) : thr[u].pc # "unborn"
          /\ thr' = [thr EXCEPT ![t].pc = "begin"]
    /\ ui_pc' = "started"
    /\ UNCHANGED <<dashIdle, automation_running, cancelTargets>>

\* start_automation, line 763
UISetRunning ==
    /\ ui_pc = "started"
    /\ automation_running' = TRUE
    /\ ui_pc' = "idle"
    /\ UNCHANGED <<dashIdle, thr, cancelTargets>>

\* Cancel Automation, streamlit_app.py lines 508-516: the button is
\* rendered while automation_running is true; the handler clears the
\* session flag, logs and reruns the script
UICancel ==
    /\ ui_pc = "idle"
    /\ automation_running
    /\ automation_running' = FALSE
    /\ cancelTargets' = cancelTargets \cup
                           {t \in 1..MaxThreads : thr[t].pc = "run"}
    /\ UNCHANGED <<dashIdle, ui_pc, thr>>

\* run_automation_thread, lines 716-733: the import may fail before the
\* flag is set at line 722, a later statement after it
ThreadBegin(t) ==
    /\ thr[t].pc = "begin"
    /\ \E r \in {"ok", "fault_before", "fault_after"} :
          /\ automation_running' =
                IF r = "fault_before" THEN automation_running ELSE TRUE
          /\ thr' = [thr EXCEPT ![t].pc = IF r = "ok" THEN "construct"
                                          ELSE "finally"]
    /\ UNCHANGED <<dashIdle, ui_pc, cancelTargets>>

\* CRMAutomation(...), lines 736-739; __init__ sets cancelled = False
\* (main.py line 61) and may raise
ThreadConstruct(t) ==
    /\ thr[t].pc = "construct"
    /\ \E ok \in BOOLEAN :
          thr' = [thr EXCEPT ![t].pc = IF ok THEN "run" ELSE "finally",
                             ![t].cancelled = FALSE]
    /\ UNCHANGED <<dashIdle, automation_running, ui_pc, cancelTargets>>

\* automation.run(), line 742: the order loop hands the next identifier to
\* the pipeline (main.py lines 729-735)
ThreadRunOrder(t) ==
    /\ thr[t].pc = "run"
    /\ thr[t].handed < MaxIds
    /\ thr' = [thr EXCEPT ![t].handed = @ + 1]
    /\ UNCHANGED <<dashIdle, automation_running, ui_pc, cancelTargets>>

\* automation.run() returns (it swallows every exception), lines 742-750
ThreadRunEnd(t) ==
    /\ thr[t].pc = "run"
    /\ thr' = [thr EXCEPT ![t].pc = "finally"]
    /\ UNCHANGED <<dashIdle, automation_running, ui_pc, cancelTargets>>

\* finally, lines 754-755
ThreadFinally(t) ==
    /\ thr[t].pc = "finally"
    /\ automation_running' = FALSE
    /\ thr' = [thr EXCEPT ![t].pc = "dead"]
    /\ UNCHANGED <<dashIdle, ui_pc, cancelTargets>>

DashNext ==
    \/ UIStart
    \/ UISetRunning
    \/ UICancel
    \/ \E t \in 1..MaxThreads : ThreadBegin(t)
    \/ \E t \in 1..MaxThreads : ThreadConstruct(t)
    \/ \E t \in 1..MaxThreads : ThreadRunOrder(t)
    \/ \E t \in 1..MaxThreads : ThreadRunEnd(t)
    \/ \E t \in 1..MaxThreads : ThreadFinally(t)

DashSpec == DashInit /\ [][DashNext]_vars

\* --------------------------------------------------------- observations
\* the order loop went through every identifier of the list
LoopCompleted == loopEntered /\ i > Len(so_numbers)

\* orders returned as failed whose line never reached the failure log
AppendFaults == {k \in 1..Len(outcomes) : outcomes[k] = "Failed" /\ appends[k] = 0}

StatsSum == stats.success + stats.failed + stats.skipped

\* the flag was set before line 729 was reached
CancelledBeforeLoop ==
    cancelAt.pc \in {"init", "load", "setup", "login", "navigate"}

LastStepFailed ==
    /\ attemptSteps # <<>>
    /\ attemptSteps[Len(attemptSteps)].res # "true"

\* ------------------------------------------------------------------ claims

C2_Original ==
    CancelledBeforeLoop =>
        /\ stats.success = 0
        /\ stats.failed = 0
        /\ pc = "done" => /\ stats.total = Len(so_numbers)
                          /\ stats.end_time # None
                          /\ summary_file # <<>>

\* C3: an order whose step reports failure is retried until the failure
\* happens on attempt max_retries - 1, so that an order returned as failed
\* after a failing step was attempted exactly max_retries times.
C3_Original ==
    (pc = "bookkeep" /\ ~success /\ LastStepFailed /\ max_retries >= 1) =>
        /\ attemptsMade = max_retries
        /\ retry_count = max_retries - 1

\* C4: every attempt starts with the search step, and no attempt executes
\* open-details or extract without a successful search earlier in that
\* same attempt.
C4_RetryRestartsFromSearch ==
    /\ attemptSteps # <<>> => attemptSteps[1].step = "search"
    /\ \A k \in 1..Len(attemptSteps) :
          attemptSteps[k].step \in {"details", "extract"} =>
             \E j \in 1..(k - 1) :
                attemptSteps[j] = [step |-> "search", res |-> "true"]

C4_Witness ==
    /\ retry_count >= 1
    /\ Len(attemptSteps) >= 2
    /\ attemptSteps[1] = [step |-> "search", res |-> "true"]
    /\ attemptSteps[2].step = "details"

\* C5: every order whose terminal outcome is failed has its identifier
\* appended to the failure log exactly once.
C5_Original ==
    pc = "done" =>
        \A k \in 1..Len(outcomes) : outcomes[k] # "Success" => appends[k] = 1

\* C6: per-order errors never abort the run: every order that did not
\* succeed is counted as failed and every identifier of the list is handed
\* to the pipeline.
C6_Original ==
    (pc = "done" /\ loopEntered) =>
        /\ Len(outcomes) = Len(so_numbers)
        /\ stats.failed >= Cardinality({k \in 1..Len(outcomes) : outcomes[k] # "Success"})

C8_ClosedExactlyOnce ==
    /\ closeCalls <= 1
    /\ ~pageUsedAfterClose
    /\ closeCalls = 1 <=> browser = "closed"
    /\ (pc = "done" /\ browser # "none") => closeCalls = 1

C8_Witness ==
    /\ pc = "done"
    /\ browser = "closed"
    /\ closeCalls = 1
    /\ ~loopEntered

\* C9: once the cancellation flag is set, no pipeline step is executed for
\* an order whose processing had not started when the flag was set.
C9_NoNewOrderAfterCancel ==
    \A e \in ranWhileCancelled : e[1] = cancelAt.order

C9_Witness ==
    /\ cancelled
    /\ pc = "bookkeep"
    /\ i > cancelAt.order
    /\ ~success
    /\ attemptSteps = <<>>

\* C10: when the flag is set while the search or the open-details step of
\* the order in flight is executing, the following step of that order is
\* not executed and the order does not end as a success.
C10_Original ==
    /\ cancelAt.pc = "po_search" =>
          /\ <<cancelAt.order, "details">> \notin ranWhileCancelled
          /\ <<cancelAt.order, "extract">> \notin ranWhileCancelled
    /\ cancelAt.pc = "po_details" =>
          <<cancelAt.order, "extract">> \notin ranWhileCancelled
    /\ (cancelAt.pc \in {"po_search", "po_details"}
          /\ Len(outcomes) >= cancelAt.order) =>
          outcomes[cancelAt.order] # "Success"

\* a pipeline step or the entry check of the order in flight is next
InPipeline ==
    pc \in {"po_check", "po_search", "po_details", "po_extract", "po_except"}

\* C11: after the cancellation flag is set, no later identifier is handed to
\* the pipeline, return_to_search is not invoked for a later identifier, and
\* later identifiers are neither counted nor appended to the failure log.
C11_Original ==
    cancelled =>
        /\ Len(processed) = cancelAt.handed
        /\ Len(outcomes) <= cancelAt.handed
        /\ returnCalls <= cancelAt.handed
        /\ \A k \in 1..Len(so_numbers) : k > cancelAt.handed => appends[k] = 0

\* C12: the strategies are invoked in the order 1, 2, 3, each only after the
\* earlier ones failed, and the first success ends the chain; when strategy
\* 1 fails and strategy 2 succeeds the call returns True, the artifact file
\* exists and strategy 3 is not invoked.
C12_FirstSuccessWins ==
    /\ \A k \in 1..Len(lastExtract.invoked) : lastExtract.invoked[k] = k
    /\ lastExtract.won # 0 =>
          /\ lastExtract.result = "true"
          /\ lastExtract.invoked[Len(lastExtract.invoked)] = lastExtract.won
    /\ lastExtract.won = 2 =>
          /\ lastExtract.invoked = <<1, 2>>
          /\ \E e \in lastExtract.saved :
                SavePath(so_numbers[i], e) \in download_dir

C12_Witness ==
    /\ pc = "bookkeep"
    /\ success
    /\ lastExtract.won = 2
    /\ lastExtract.invoked = <<1, 2>>

\* C13: find_and_save_invoice_image returns False only when all three
\* strategies were tried and each failed; in particular every failure of
\* strategy 2 is followed by an attempt of strategy 3.
C13_Original ==
    lastExtract.result = "false" =>
        /\ lastExtract.invoked = <<1, 2, 3>>
        /\ lastExtract.won = 0

\* C14: for the list [SO001, SO002], with SO001 processed successfully and
\* SO002 returned as failed, the finished run has total = 2, success = 1,
\* failed = 1 and the failure log is exactly [SO002].
C14_EndToEnd ==
    (/\ pc \in {"done", "returned"}
     /\ so_numbers = <<"SO001", "SO002">>
     /\ outcomes = <<"Success", "Failed">>
     /\ AppendFaults = {}) =>
        /\ stats.total = 2
        /\ stats.success = 1
        /\ stats.failed = 1
        /\ failed_orders = <<"SO002">>

C14_Witness ==
    /\ pc = "returned"
    /\ ~cancelled
    /\ so_numbers = <<"SO001", "SO002">>
    /\ outcomes = <<"Success", "Failed">>
    /\ failed_orders = <<"SO002">>
    /\ stats.success = 1

\* C15: when login fails on all 3 attempts, the finished run has total = N,
\* success = 0 and failed = 0, no order was processed, and a LoginError is
\* surfaced to the caller of run.
C15_Original ==
    (/\ pc = "returned"
     /\ login_success = "false"
     /\ loginLog.attempts = max_attempts
     /\ ~loginLog.aborted) =>
        /\ stats.total = Len(so_numbers)
        /\ stats.success = 0
        /\ stats.failed = 0
        /\ processed = <<>>
        /\ surfaced = "LoginError"

\* C16: login makes at most 3 attempts and at most 3 credential
\* submissions, returns False only after all 3 attempts have failed, and
\* returns True as soon as the verification of one attempt succeeds.
C16_Original ==
    /\ loginLog.attempts <= max_attempts
    /\ loginLog.submissions <= max_attempts
    /\ loginLog.result = "false" =>
          /\ loginLog.attempts = max_attempts
          /\ loginLog.verified = {}
    /\ loginLog.verified # {} =>
          /\ loginLog.result = "true"
          /\ \A a \in loginLog.verified : a = loginLog.attempts

\* C17: the identifiers are handed to the pipeline in the order of the
\* list, none skipped, duplicates included; an order is handed over only
\* when every earlier one has its outcome and has been counted.
C17_StrictOrder ==
    /\ Len(processed) <= Len(so_numbers)
    /\ \A k \in 1..Len(processed) : processed[k] = so_numbers[k]
    /\ InPipeline =>
          /\ Len(outcomes) = Len(processed) - 1
          /\ stats.success + stats.failed >= Len(processed) - 1
    /\ LoopCompleted => processed = so_numbers

C17_Witness ==
    /\ LoopCompleted
    /\ Len(so_numbers) = 2
    /\ so_numbers[1] = so_numbers[2]
    /\ processed = so_numbers
    /\ Len(outcomes) = 2

\* C18: for each identifier handed to the pipeline exactly one of success
\* and failed is incremented, by 1, so that success + failed never exceeds
\* the number of identifiers visited, also when the append to the failure
\* log faults.
C18_Original ==
    /\ stats.success + stats.failed <= Len(outcomes)
    /\ pc = "after_order" => stats.success + stats.failed = Len(outcomes)

\* C19: the session-state file written by a successful login of one run
\* is the file the next run, with the same configuration, looks for and
\* loads when it creates its browser context.
C19_Original ==
    (/\ run_no = "second"
     /\ pc = "r_login"
     /\ firstRun.login = "true") =>
        context_state \in firstRun.written

C28_Original ==
    fn_name = "is_logged_in" =>
        LET a == fn_arg.logout = "visible"
            b == fn_arg.url = "other" /\ fn_arg.shell = "found"
            c == \E k \in 1..welcome_count : fn_arg.welcome[k] = "found"
            faultMet ==
                \/ fn_arg.logout = "fault"
                \/ ~a /\ fn_arg.url = "other" /\ fn_arg.shell = "fault"
                \/ /\ ~a /\ ~b
                   /\ ~(fn_arg.url = "other" /\ fn_arg.shell = "fault")
                   /\ \E k \in 1..welcome_count :
                         /\ fn_arg.welcome[k] = "fault"
                         /\ \A j \in 1..(k - 1) : fn_arg.welcome[j] # "found"
        IN  /\ ~faultMet => (fn_ret.result <=> (a \/ b \/ c))
            /\ fn_arg.url # "other" => fn_ret.by # "b"
            /\ faultMet => fn_ret.result = FALSE

\* C28 (amended): is_logged_in returns True exactly when (a) holds, or the
\* shell lookup of (b) does not fault and (b) or (c) holds, the first
\* satisfied check winning; a fault of the indicator lookup or of one
\* greeting lookup counts as that lookup finding nothing, a fault of the
\* shell lookup ends the check with False.
C28_LoggedInChecks ==
    fn_name = "is_logged_in" =>
        LET a == fn_arg.logout = "visible"
            b == fn_arg.url = "other" /\ fn_arg.shell = "found"
            shellFault == fn_arg.url = "other" /\ fn_arg.shell = "fault"
            c == \E k \in 1..welcome_count : fn_arg.welcome[k] = "found"
        IN  /\ fn_ret.result <=> (a \/ (~shellFault /\ (b \/ c)))
            /\ fn_ret.result =>
                  fn_ret.by = (IF a THEN "a" ELSE IF b THEN "b" ELSE "c")
            /\ fn_arg.url # "other" => fn_ret.by # "b"
            /\ ~a /\ shellFault => fn_ret.result = FALSE

C28_Witness ==
    /\ fn_name = "is_logged_in"
    /\ fn_arg.logout = "fault"
    /\ fn_arg.url = "other"
    /\ fn_arg.shell = "found"
    /\ fn_ret.result = TRUE
    /\ fn_ret.by = "b"

\* C24: return_to_search tries the tiers in the order link, history back,
\* direct URL; a tier is attempted exactly when every earlier tier failed
\* (it faulted or did not bring the page back to the search page), and the
\* result is True whenever some tier succeeded.
C24_Original ==
    fn_name = "return_to_search" =>
        LET failed1 == fn_arg.t1 # "ok"
            failed2 == fn_arg.t2 # "ok"
            tried(k) == \E j \in 1..Len(fn_ret.invoked) : fn_ret.invoked[j] = k
        IN  /\ \A j \in 1..Len(fn_ret.invoked) : fn_ret.invoked[j] = j
            /\ tried(1)
            /\ tried(2) <=> failed1
            /\ tried(3) <=> (failed1 /\ failed2)
            /\ fn_ret.won # 0 => fn_ret.result = "true"

\* C22: when the site already shows the logged-in state and presents no
\* login form, login succeeds without submitting credentials.
C22_Original ==
    (fn_name = "login" /\ NoLoginForm(fn_arg)) =>
        /\ fn_ret.log.result = "true"
        /\ fn_ret.log.submissions = 0

\* C29: after every failed login attempt that is followed by another
\* attempt, a screenshot was captured, a wait was made and the page was
\* reloaded before the next attempt began.
C29_Original ==
    fn_name = "login" =>
        \A k \in 1..(fn_ret.log.attempts - 1) :
            fn_ret.diag[k] = {"shot", "wait", "reload"}

\* C21: an order is handed to the pipeline only after login and
\* navigate_to_job_search both returned True, and a run in which either
\* did not return True ends finalized with success = 0 and failed = 0.
C21_SessionBeforeOrders ==
    /\ (processed # <<>> \/ InPipeline \/ attemptSteps # <<>>) =>
          /\ login_success = "true"
          /\ navigation_success = "true"
    /\ (/\ pc \in {"done", "returned"}
        /\ (login_success # "true" \/ navigation_success # "true")) =>
          /\ stats.success = 0
          /\ stats.failed = 0
          /\ stats.end_time # None
          /\ processed = <<>>

C21_Witness ==
    /\ pc = "returned"
    /\ login_success = "true"
    /\ navigation_success = "false"
    /\ stats.total > 0
    /\ stats.success = 0
    /\ stats.failed = 0

\* C23: navigate_to_job_search, return_to_search and the pipeline steps
\* always return a boolean: no call of one of them ends with an exception
\* that reaches its caller.
C23_Original ==
    [][/\ pc = "navigate" => pc' # "inner_except"
       /\ pc = "after_order" => pc' # "inner_except"
       /\ pc \in {"po_search", "po_details", "po_extract"} =>
             pc' # "po_except"]_vars

\* C25: the failure log has one line for every increment of the failed
\* counter, the except branch of the loop body included, and no line for
\* an order counted as success.
C25_Original ==
    /\ stats.failed = Len(failed_orders)
    /\ \A k \in 1..Len(outcomes) : outcomes[k] = "Success" => appends[k] = 0

\* the flag was set between two attempts of the order in flight
CancelledBetweenAttempts ==
    \/ cancelAt.pc = "po_except"
    \/ cancelAt.pc = "po_check" /\ cancelAt.order > 0

\* C27: when the flag is set between two attempts of an order, no step of
\* a further attempt runs afterwards and the order does not end as Success.
C27_NoAttemptAfterCancel ==
    CancelledBetweenAttempts =>
        /\ ranWhileCancelled = {}
        /\ Len(outcomes) >= cancelAt.order =>
              outcomes[cancelAt.order] # "Success"

C27_Witness ==
    /\ cancelAt.pc = "po_except"
    /\ pc = "bookkeep"
    /\ i = cancelAt.order
    /\ retry_count > 0
    /\ attemptsMade = retry_count
    /\ ~success

\* C30: return_to_search is invoked exactly once after every order that is
\* not the last of the list, never after the last, and the next order is
\* not started before it.
C30_Original ==
    /\ returnCalls <= Len(so_numbers)
    /\ returnCalls = Len(so_numbers) => so_numbers = <<>>
    /\ InPipeline => returnCalls = Len(processed) - 1
    /\ pc \in {"done", "returned"} =>
          returnCalls =
             Cardinality({k \in 1..Len(outcomes) : k < Len(so_numbers)})

\* C26: after the Cancel button was pressed while an automation thread was
\* inside automation.run(), the cancelled flag of that thread's
\* CRMAutomation object is set.
C26_Original ==
    \A t \in cancelTargets : thr[t].cancelled

\* C31 (as stated): the verification succeeds exactly when the rows
\* appeared and at least one row's text contains the identifier, whatever
\* the no-results message; a failed verification makes the search fail.
C31_Original ==
    (fn_name = "search_service_order" /\ fn_ret.reached) =>
        /\ fn_ret.found <=>
              /\ fn_arg.verify.wait = "ok"
              /\ \E k \in 1..Len(fn_arg.verify.rows) :
                    fn_arg.verify.rows[k] = "match"
        /\ ~fn_ret.found => ~fn_ret.result

\* C31 (amended): the verification succeeds exactly when the rows appeared,
\* were listed without a fault, and a row contains the identifier with no
\* faulting row lookup before it, whatever the no-results message; a failed
\* verification makes the search fail, and the search succeeds only when
\* the verification was reached and succeeded.
C31_VerifyByRows ==
    fn_name = "search_service_order" =>
        /\ fn_ret.reached =>
              (fn_ret.found <=>
                 /\ fn_arg.verify.wait = "ok"
                 /\ fn_arg.verify.query = "ok"
                 /\ \E k \in 1..Len(fn_arg.verify.rows) :
                       /\ fn_arg.verify.rows[k] = "match"
                       /\ \A j \in 1..(k - 1) :
                             fn_arg.verify.rows[j] = "other")
        /\ ~fn_ret.found => ~fn_ret.result
        /\ fn_ret.result => (fn_ret.reached /\ fn_ret.found)

C31_Witness ==
    /\ fn_name = "search_service_order"
    /\ fn_ret.reached
    /\ fn_arg.verify.wait = "ok"
    /\ fn_arg.verify.query = "ok"
    /\ fn_arg.verify.rows = <<"fault", "match">>
    /\ fn_arg.verify.msg = "present"
    /\ ~fn_ret.found
    /\ ~fn_ret.result

\* C32: in navigate_to_job_search the link is clicked only after the click
\* of the menu completed in the same call, and a fault of the menu click
\* makes the call return False without clicking the link.
C32_Original ==
    fn_name = "navigate_to_job_search" =>
        /\ (\E k \in 1..Len(fn_ret.clicks) : fn_ret.clicks[k] = "link") =>
              (fn_arg.menu = "ok" /\ fn_ret.clicks = <<"menu", "link">>)
        /\ fn_arg.menu = "fault" =>
              (fn_ret.result = "false" /\ fn_ret.clicks = <<"menu">>)

\* C33: navigate_to_job_search returns True whenever both clicks completed
\* and open_service_order_details returns True whenever the view button was
\* found and clicked, also when the element waited for afterwards is not
\* found; each returns False only when a click is missing or faults.
C33_Original ==
    /\ fn_name = "navigate_to_job_search" =>
          (fn_ret.result = "true" <=>
              (fn_arg.menu = "ok" /\ fn_arg.expand = "ok" /\ fn_arg.link = "ok"))
    /\ fn_name = "open_service_order_details" =>
          (fn_ret.result = "true" <=>
              (fn_arg.eye = "found" /\ fn_arg.scroll = "ok"
               /\ fn_arg.click = "ok"))

\* C34: print_summary is invoked only when end_time has been set; in
\* particular the invocation after the order loop finds end_time set.
C34_Original ==
    pc = "summary1" => stats.end_time # None

\* the larger of 1 and the configured max_retries
MaxAttempts == IF max_retries > 1 THEN max_retries ELSE 1

\* C35: process_service_order terminates for every configured max_retries
\* and every order is settled after at least one and at most
\* max(1, max_retries) attempts, retry_count growing by 1 on each retry.
C35_Original ==
    pc = "bookkeep" => (attemptsMade >= 1 /\ attemptsMade <= MaxAttempts)

\* C35 as amended: process_service_order terminates for every configured
\* max_retries; it makes at most max(1, max_retries) attempts, one per
\* entry, and at least one unless the cancelled flag is set, in which case
\* the entry returns False before attempting; retry_count grows by
\* exactly 1 on each retry.
C35_BoundedAttempts ==
    /\ [](InPipeline => /\ retry_count + 1 <= MaxAttempts
                        /\ attemptsMade <= retry_count + 1)
    /\ [](pc = "bookkeep" => /\ attemptsMade <= MaxAttempts
                             /\ (attemptsMade = 0 => cancelled)
                             /\ (~cancelled => attemptsMade = retry_count + 1))
    /\ [][(InPipeline /\ InPipeline' /\ retry_count' # retry_count) =>
             (pc = "po_except" /\ retry_count' = retry_count + 1)]_vars
    /\ (pc = "po_check" ~> ~InPipeline)

C35_Witness ==
    /\ pc = "bookkeep"
    /\ max_retries >= 2
    /\ retry_count + 1 = max_retries
    /\ attemptsMade = max_retries
    /\ ~success

\* C36: an order is returned and counted as a success only when, in the
\* attempt that succeeded, the search, the opening of the details and the
\* extraction returned True and the extraction wrote a file named after
\* the identifier into the download directory.
C36_SuccessHasArtifact ==
    /\ (pc = "bookkeep" /\ success) =>
          /\ attemptSteps = <<[step |-> "search", res |-> "true"],
                              [step |-> "details", res |-> "true"],
                              [step |-> "extract", res |-> "true"]>>
          /\ \E e \in lastExtract.saved :
                SavePath(so_numbers[i], e) \in download_dir
    /\ \A k \in 1..Len(outcomes) :
          outcomes[k] = "Success" =>
             \E f \in download_dir : f.id = processed[k]
    /\ stats.success <=
          Cardinality({k \in 1..Len(outcomes) : outcomes[k] = "Success"})

C36_Witness ==
    /\ pc = "after_order"
    /\ stats.success = 1
    /\ outcomes = <<"Success">>
    /\ download_dir = {SavePath("SO001", "jpg")}

\* C37: the skipped counter is 0 in every state of a run.
C37_SkippedZero == stats.skipped = 0

C37_Witness ==
    /\ pc = "returned"
    /\ cancelled
    /\ \E k \in 1..Len(outcomes) : outcomes[k] = "Success"
    /\ \E k \in 1..Len(outcomes) : outcomes[k] = "Failed"
    /\ stats.skipped = 0

\* C38: when find_and_save_invoice_image has returned, no page opened by
\* the new-tab strategy is still open.
C38_Original ==
    lastExtract.result # "none" => lastExtract.pagesOpen = 0

\* C39: whenever no click is being handled and no automation thread is
\* alive, automation_running is false.
C39_Original ==
    (ui_pc = "idle" /\ \A t \in 1..MaxThreads : thr[t].pc \in {"unborn", "dead"})
        => ~automation_running

\* C40: at most one automation thread is alive at any moment, whatever the
\* sequence of Start and Cancel clicks.
C40_Original ==
    Cardinality({t \in 1..MaxThreads : thr[t].pc \notin {"unborn", "dead"}}) <= 1

TypeOK ==
    /\ pc \in {"init", "load", "setup", "login", "navigate", "loop", "po_check",
               "po_search", "po_details", "po_extract", "po_except", "bookkeep",
               "critical", "after_order", "summary1", "inner_except", "cleanup",
               "outer_except", "outer_finally", "done", "returned"}
    /\ cancelled \in BOOLEAN
    /\ browser \in {"none", "open", "closed"}
    /\ retry_count \in 0..MaxRetriesCfg
====
